---- MODULE Spec2Model ----
(***************************************************************************)
(* Paillier voting: the key generator, the cipher, the homomorphic         *)
(* aggregator and the one-hot vote codec of Paillier_Vote.py and           *)
(* Realistic_Election.py, with the election drivers that call them.        *)
(*                                                                         *)
(* Python integers are unbounded; TLC's are 32 bit.  Every modulus of the  *)
(* program is below 2^29 (the largest n is 139 * 149), so a product        *)
(* modulo n_sq is computed by MulMod, which never leaves 31 bits, and      *)
(* every other product of the program fits as it stands.                   *)
(***************************************************************************)
EXTENDS Integers, Sequences, FiniteSets, TLC

VARIABLES
    pc,     \* the position of the session
    pub,    \* the public key, or None
    priv,   \* the private key, or None
    ct1,    \* the first ballot [m, r, c]: plaintext, randomizer, ciphertext
    ct2,    \* the second ballot
    sum,    \* the aggregate [op, c] of the ballots, or of cts
    cts,    \* a list of ciphertexts handed to the aggregator
    call,   \* the arguments of the call of paillier_encrypt that raised,
            \* or of the call of the vote codec
    ret,    \* what that call raised or returned, or the decrypted value
    encrypted_tally,    \* the running encrypted tally of the election, or None
    cast,               \* how many votes each candidate was given so far
    tally,              \* the decrypted tally, or None
    winner_index        \* the winner, or None

electionVars == <<encrypted_tally, cast, tally, winner_index>>

vars == <<pc, pub, priv, ct1, ct2, sum, cts, call, ret, electionVars>>

(***************************************************************************)
(* Bounds of the model.                                                    *)
(***************************************************************************)
\* plaintexts are drawn from 0..MaxM and n-1-MaxM..n-1, and the
\* out-of-range ones from -MaxM-1..-1 and n..n+MaxM
MaxM == 1
\* randomizers are drawn from the units of Z_n among 1..MaxRand, and n-1
MaxRand == 2
\* the aggregator is handed lists of at most MaxLen ciphertexts, drawn from
\* 0..MaxC, n_sq-1-MaxC..n_sq-1 and g
MaxLen == 3
MaxC == 1
\* the vote codec is called with at most MaxK candidates, tallies of at most
\* MaxCount votes a candidate, and vectors of at most MaxVec ciphertexts
MaxK == 4
MaxCount == 2
MaxVec == 2
\* an election draws its primes among the first ElectionPrimes of the pool,
\* has at most MaxVoters voters, and the draws of a ballot start at 1..MaxDraw
ElectionPrimes == 3
MaxVoters == 4
MaxDraw == 2
\* the same plaintext is encrypted again under the units of Z_n among
\* 1..MaxUnit and n-MaxUnit..n-1
MaxUnit == 3
\* paillier_decrypt is handed the first MaxMult multiples of p, of q and of
\* n, counted from 0 and back from n_sq
MaxMult == 6

(***************************************************************************)
(* Values.                                                                 *)
(***************************************************************************)
None == [none |-> TRUE]

\* a returned value, and a raised exception
Return(v) == [val |-> v]
Raise(e) == [err |-> e]
Raised(x) == "err" \in DOMAIN x

(***************************************************************************)
(* Integer arithmetic of the Python runtime.                               *)
(***************************************************************************)
\* math.gcd
RECURSIVE gcd(_, _)
gcd(a, b) == IF b = 0 THEN (IF a < 0 THEN -a ELSE a) ELSE gcd(b, a % b)

\* (a * b) % m for 0 <= a < m < 2^29 and b >= 0, two bits of b at a time
RECURSIVE MulMod(_, _, _)
MulMod(a, b, m) ==
    IF b = 0 THEN 0
    ELSE (((4 * MulMod(a, b \div 4, m)) % m) + (a * (b % 4))) % m

\* pow(b, e, m) for e >= 0: square and multiply.  TLC evaluates a LET
\* lazily; the comparisons evaluate h and s before the product descends.
RECURSIVE pow(_, _, _)
pow(b, e, m) ==
    IF e = 0 THEN 1 % m
    ELSE LET h == pow(b, e \div 2, m)
             s == MulMod(h, h, m)
         IN  IF h < 0 \/ s < 0 THEN 0
             ELSE IF e % 2 = 1 THEN MulMod(s, b % m, m) ELSE s

\* the Bezout coefficient x of a in a*x + b*y = gcd(a, b)
RECURSIVE bezout(_, _)
bezout(a, b) ==
    IF b = 0 THEN <<1, 0>>
    ELSE LET t == bezout(b, a % b)
         IN  <<t[2], t[1] - (a \div b) * t[2]>>

\* pow(a, -1, m)
inverse(a, m) == bezout(a % m, m)[1] % m

(***************************************************************************)
(* Paillier_Vote.py                                                        *)
(***************************************************************************)
lcm(a, b) == (a \div gcd(a, b)) * b

modInv(a, m) ==
    LET g == gcd(a, m)
    IN  IF g # 1 THEN Raise("ValueError") ELSE Return(inverse(a, m))

small_primes == <<101, 103, 107, 109, 113, 127, 131, 137, 139, 149>>

PaillierPublicKey(n, g) == [n |-> n, g |-> g, n_sq |-> n * n]

PaillierPrivateKey(lambda_, mu) == [lambda_ |-> lambda_, mu |-> mu]

\* L(u) = (u - 1) // n, the local function of the key generator and of decrypt
L(u, n) == (u - 1) \div n

\* generatePaillierKey that raises g to n instead of lambda: L(x) is then 0,
\* which has no inverse
generatePaillierKey_pow_n(p, q) ==
    LET n == p * q
        lambda_ == lcm(p - 1, q - 1)
        g == n + 1
        n_sq == n * n
        x == pow(g, n, n_sq)
        l_val == L(x, n)
        mu == modInv(l_val, n)
    IN  IF Raised(mu) THEN mu
        ELSE Return([publicKey |-> PaillierPublicKey(n, g),
                     privateKey |-> PaillierPrivateKey(lambda_, mu.val)])

\* generatePaillierKey that stores L(x) itself for mu, without inverting it
generatePaillierKey_no_inv(p, q) ==
    LET n == p * q
        lambda_ == lcm(p - 1, q - 1)
        g == n + 1
        n_sq == n * n
        x == pow(g, lambda_, n_sq)
        l_val == L(x, n)
        mu == modInv(l_val, n)
    IN  IF Raised(mu) THEN mu
        ELSE Return([publicKey |-> PaillierPublicKey(n, g),
                     privateKey |-> PaillierPrivateKey(lambda_, l_val % n)])

\* the body of generatePaillierKey after its two draws p and q
generatePaillierKey(p, q) ==
    LET n == p * q
        lambda_ == lcm(p - 1, q - 1)
        g == n + 1
        n_sq == n * n
        x == pow(g, lambda_, n_sq)
        l_val == L(x, n)
        mu == modInv(l_val, n)
    IN  IF Raised(mu) THEN mu
        ELSE Return([publicKey |-> PaillierPublicKey(n, g),
                     privateKey |-> PaillierPrivateKey(lambda_, mu.val)])

\* the draws getRandom can return: 1 <= r < n with gcd(r, n) = 1
Units(n, S) == {r \in S : 1 <= r /\ r < n /\ gcd(r, n) = 1}

\* the optional argument r of paillier_encrypt: None is <<>>, r is <<r>>
NoR == <<>>
SomeR(r) == <<r>>

\* paillier_encrypt that leaves r^n out of the product: c = g^m mod n^2
paillier_encrypt_no_r(pk, m, r, d) ==
    LET n == pk.n
        g == pk.g
        n_sq == pk.n_sq
    IN  IF ~(0 <= m /\ m < n)
        THEN [err |-> "ValueError", draws |-> 0]
        ELSE LET r1 == IF r = NoR THEN d ELSE r[1]
                 c == pow(g, m, n_sq) % n_sq
             IN  [val |-> c, rand |-> r1, draws |-> IF r = NoR THEN 1 ELSE 0]

\* paillier_encrypt whose range check lets m = n through: 0 <= m <= n
paillier_encrypt_le(pk, m, r, d) ==
    LET n == pk.n
        g == pk.g
        n_sq == pk.n_sq
    IN  IF ~(0 <= m /\ m <= n)
        THEN [err |-> "ValueError", draws |-> 0]
        ELSE LET r1 == IF r = NoR THEN d ELSE r[1]
                 c == MulMod(pow(g, m, n_sq), pow(r1, n, n_sq), n_sq)
             IN  [val |-> c, rand |-> r1, draws |-> IF r = NoR THEN 1 ELSE 0]

\* paillier_encrypt(pub, m, r), where d is what getRandom(n) returns if it
\* is called.  draws counts the calls of getRandom, rand is the randomizer
\* that went into the ciphertext.
paillier_encrypt(pk, m, r, d) ==
    LET n == pk.n
        g == pk.g
        n_sq == pk.n_sq
    IN  IF ~(0 <= m /\ m < n)
        THEN [err |-> "ValueError", draws |-> 0]
        ELSE LET r1 == IF r = NoR THEN d ELSE r[1]
                 c == MulMod(pow(g, m, n_sq), pow(r1, n, n_sq), n_sq)
             IN  [val |-> c, rand |-> r1, draws |-> IF r = NoR THEN 1 ELSE 0]

\* paillier_decrypt without the last reduction: m = L(c^lambda mod n^2) * mu
paillier_decrypt_no_mod(pk, sk, c) ==
    L(pow(c, sk.lambda_, pk.n_sq), pk.n) * sk.mu

\* paillier_decrypt that leaves mu out: m = L(c^lambda mod n^2) mod n
paillier_decrypt_no_mu(pk, sk, c) ==
    L(pow(c, sk.lambda_, pk.n_sq), pk.n) % pk.n

paillier_decrypt(pk, sk, c) ==
    LET n == pk.n
        n_sq == pk.n_sq
        lambda_ == sk.lambda_
        mu == sk.mu
        x == pow(c, lambda_, n_sq)
        l_val == L(x, n)
    IN  (l_val * mu) % n

\* homomorphic_add that adds the ciphertexts: (c1 + c2) % pub.n_sq
homomorphic_add_plus(pk, c1, c2) == ((c1 % pk.n_sq) + (c2 % pk.n_sq)) % pk.n_sq

\* homomorphic_add that multiplies c1 by itself: (c1 * c1) % pub.n_sq
homomorphic_add_sq(pk, c1, c2) == MulMod(c1 % pk.n_sq, c1, pk.n_sq)

\* (c1 * c2) % pub.n_sq, for c1, c2 >= 0
homomorphic_add(pk, c1, c2) == MulMod(c1 % pk.n_sq, c2, pk.n_sq)

\* the loop of homomorphic_add_many over the rest of the list
RECURSIVE add_many_loop(_, _, _)
add_many_loop(pk, ciphertexts, result) ==
    IF ciphertexts = <<>> THEN result
    ELSE add_many_loop(pk, Tail(ciphertexts),
                       MulMod(result, Head(ciphertexts), pk.n_sq))

\* homomorphic_add_many whose return is indented into the loop
homomorphic_add_many_first(pk, ciphertexts) ==
    IF ciphertexts = <<>>
    THEN (pow(pk.g, 0, pk.n_sq) * pow(1, pk.n, pk.n_sq)) % pk.n_sq
    ELSE MulMod(1, Head(ciphertexts), pk.n_sq)

\* homomorphic_add_many that takes 0 for the empty aggregate
homomorphic_add_many_zero(pk, ciphertexts) ==
    IF ciphertexts = <<>> THEN 0
    ELSE add_many_loop(pk, ciphertexts, 1)

homomorphic_add_many(pk, ciphertexts) ==
    IF ciphertexts = <<>>
    THEN (pow(pk.g, 0, pk.n_sq) * pow(1, pk.n, pk.n_sq)) % pk.n_sq
    ELSE add_many_loop(pk, ciphertexts, 1)

(***************************************************************************)
(* Realistic_Election.py                                                   *)
(***************************************************************************)
CANDIDATES ==
    <<"Amman, Ahmad", "Bruno Terceros, Jason", "Ngo, Hieu", "Sink, Connor">>

\* num_candidates = len(CANDIDATES)
NumCandidates == Len(CANDIDATES)

\* [0] * num: the empty list when num <= 0
Zeros(num) == [i \in 1 .. (IF num < 0 THEN 0 ELSE num) |-> 0]

\* v[index] = 1 of a Python list: positions 0 .. len-1, and -len .. -1 that
\* count from the end; any other index raises IndexError.  The list s is
\* a sequence, position i of the list being s[i + 1].
SetItem(v, index, x) ==
    IF index >= Len(v) \/ index < -Len(v) THEN Raise("IndexError")
    ELSE Return([v EXCEPT ![(IF index < 0 THEN Len(v) + index ELSE index) + 1] = x])

encode_vote(index, num) ==
    LET v == Zeros(num)
    IN  SetItem(v, index, 1)

\* [paillier_encrypt(pub, m) for m in vec], draws[i] being what getRandom
\* returns for the i-th entry
encrypt_vector(vec, pk, draws) ==
    [i \in 1 .. Len(vec) |-> paillier_encrypt(pk, vec[i], NoR, draws[i]).val]

Min(a, b) == IF a < b THEN a ELSE b

\* add_vectors whose sum takes enc_vec_b twice
add_vectors_bb(enc_vec_a, enc_vec_b, pk) ==
    [i \in 1 .. Min(Len(enc_vec_a), Len(enc_vec_b)) |->
        homomorphic_add(pk, enc_vec_b[i], enc_vec_b[i])]

\* zip stops at the end of the shorter list
add_vectors(enc_vec_a, enc_vec_b, pk) ==
    [i \in 1 .. Min(Len(enc_vec_a), Len(enc_vec_b)) |->
        homomorphic_add(pk, enc_vec_a[i], enc_vec_b[i])]

decrypt_vector(enc_vec, pk, sk) ==
    [i \in 1 .. Len(enc_vec) |-> paillier_decrypt(pk, sk, enc_vec[i])]

\* max(t) of a list: the scan from the left that keeps the larger item;
\* the empty list raises ValueError
RECURSIVE max_from(_, _, _)
max_from(t, i, best) ==
    IF i > Len(t) THEN best
    ELSE max_from(t, i + 1, IF t[i] > best THEN t[i] ELSE best)

list_max(t) ==
    IF t = <<>> THEN Raise("ValueError") ELSE Return(max_from(t, 2, t[1]))

\* t.index(x): the first position, counted from 0, that holds x
RECURSIVE index_from(_, _, _)
index_from(t, x, i) ==
    IF i > Len(t) THEN Raise("ValueError")
    ELSE IF t[i] = x THEN Return(i - 1)
    ELSE index_from(t, x, i + 1)

\* the last position that holds x
RECURSIVE index_back(_, _, _)
index_back(t, x, i) ==
    IF i < 1 THEN Raise("ValueError")
    ELSE IF t[i] = x THEN Return(i - 1)
    ELSE index_back(t, x, i - 1)

\* the winner taken as the last candidate with the most votes
winner_last(t) ==
    LET m == list_max(t)
    IN  IF Raised(m) THEN m ELSE index_back(t, m.val, Len(t))

\* winner_index = tally.index(max(tally))
winner(t) ==
    LET m == list_max(t)
    IN  IF Raised(m) THEN m ELSE index_from(t, m.val, 1)

InRange(m, n) == 0 <= m /\ m < n

(***************************************************************************)
(* The inputs of the model.                                                *)
(***************************************************************************)
Pool == {small_primes[i] : i \in DOMAIN small_primes}

Plaintexts(n) == (0 .. MaxM) \cup ((n - 1 - MaxM) .. (n - 1))

OutOfRange(n) == ((-MaxM - 1) .. -1) \cup (n .. (n + MaxM))

Randomizers(n) == Units(n, (1 .. MaxRand) \cup {n - 1})

\* randomizers at both ends of [1, n)
WideUnits(n) == Units(n, (1 .. MaxUnit) \cup ((n - MaxUnit) .. (n - 1)))

\* integers of [0, n_sq) that are no ciphertexts: 0 and the multiples of
\* p, of q and of n next to both ends of the range
Malformed(pk) ==
    LET factors == {f \in Pool : pk.n % f = 0} \cup {pk.n}
    IN  {0} \cup {k * f : k \in 1 .. MaxMult, f \in factors}
            \cup {pk.n_sq - k * f : k \in 1 .. MaxMult, f \in factors}

\* the primes an election draws from
ElectionPool == {small_primes[i] : i \in 1 .. Min(ElectionPrimes, Len(small_primes))}

\* the draws of getRandom for the entries of one ballot: consecutive
\* units of Z_n from d on, for d in 1..MaxDraw
BallotDraws(n) ==
    {[j \in 1 .. NumCandidates |-> d + j - 1] : d \in 1 .. MaxDraw}
        \cap [1 .. NumCandidates -> Units(n, 1 .. (MaxDraw + NumCandidates))]

\* the two ciphertexts the vectors handed to add_vectors are made of: g,
\* the encryption of 1 under r = 1, and n_sq - 1, that of 0 under r = n - 1
VecEntries(pk) == {pk.g, pk.n_sq - 1}

\* the lists of at most n items of S
RECURSIVE ListsUpTo(_, _)
ListsUpTo(S, n) ==
    IF n = 0 THEN {<<>>}
    ELSE LET shorter == ListsUpTo(S, n - 1)
         IN  shorter \cup {Append(l, x) : l \in shorter, x \in S}

\* integers of [0, n_sq): both ends of the range, which are no encryptions
\* (0) or are (1, n_sq - 1), and g, the encryption of 1 under r = 1
Ciphers(pk) ==
    (0 .. MaxC) \cup ((pk.n_sq - 1 - MaxC) .. (pk.n_sq - 1)) \cup {pk.g}

(***************************************************************************)
(* A session of the cipher, as single_vote_demo and run_simple_election    *)
(* run it: generate the keys, encrypt one or two plaintexts, aggregate     *)
(* the ciphertexts, decrypt.                                               *)
(***************************************************************************)
Init ==
    /\ pc = "start"
    /\ pub = None
    /\ priv = None
    /\ ct1 = None
    /\ ct2 = None
    /\ sum = None
    /\ cts = <<>>
    /\ call = None
    /\ ret = None
    /\ encrypted_tally = None
    /\ cast = [j \in 1 .. NumCandidates |-> 0]
    /\ tally = None
    /\ winner_index = None

\* pub, priv = generatePaillierKey(), with p and q drawn from the primes P
KeyGenFrom(P) ==
    /\ pc = "start"
    /\ \E p \in P : \E q \in P \ {p} :
          LET k == generatePaillierKey(p, q)
          IN  IF Raised(k)
              THEN /\ pc' = "error"
                   /\ ret' = k
                   /\ UNCHANGED <<electionVars, pub, priv>>
              ELSE /\ pc' = "keyed"
                   /\ pub' = k.val.publicKey
                   /\ priv' = k.val.privateKey
                   /\ ret' = None
    /\ UNCHANGED <<electionVars, ct1, ct2, sum, cts, call>>

KeyGen == KeyGenFrom(Pool)

\* the ciphertexts encrypted so far
Ciphertexts ==
    IF ct1 = None THEN <<>>
    ELSE IF ct2 = None THEN <<ct1.c>> ELSE <<ct1.c, ct2.c>>

\* c = paillier_encrypt(pub, m, r), the first and the second time
Encrypt(m, r, d) ==
    LET e == paillier_encrypt(pub, m, r, d)
        b == [m |-> m, r |-> e.rand, c |-> e.val]
    IN  /\ IF Raised(e)
           THEN /\ pc' = "error"
                /\ call' = [m |-> m, r |-> r]
                /\ ret' = e
                /\ UNCHANGED <<electionVars, ct1, ct2>>
           ELSE /\ pc' = IF pc = "keyed" THEN "enc1" ELSE "enc2"
                /\ ct1' = IF pc = "keyed" THEN b ELSE ct1
                /\ ct2' = IF pc = "keyed" THEN ct2 ELSE b
                /\ UNCHANGED <<electionVars, call, ret>>
        /\ UNCHANGED <<electionVars, pub, priv, sum, cts>>

\* the caller supplies r
EncryptWith ==
    /\ pc \in {"keyed", "enc1"}
    /\ \E m \in Plaintexts(pub.n) \cup OutOfRange(pub.n) :
        \E r \in Randomizers(pub.n) : Encrypt(m, SomeR(r), r)

\* the caller leaves r out, and getRandom draws it
EncryptDraw ==
    /\ pc \in {"keyed", "enc1"}
    /\ \E m \in Plaintexts(pub.n) \cup OutOfRange(pub.n) :
        \E d \in Randomizers(pub.n) : Encrypt(m, NoR, d)

\* homomorphic_add(pub, c1, c2) of the two ballots
Add ==
    /\ pc = "enc2"
    /\ sum' = [op |-> "add", c |-> homomorphic_add(pub, ct1.c, ct2.c)]
    /\ pc' = "added"
    /\ UNCHANGED <<electionVars, pub, priv, ct1, ct2, cts, call, ret>>

\* aggregate = homomorphic_add_many(pub, ciphertexts)
AddMany ==
    /\ pc \in {"keyed", "enc1", "enc2"}
    /\ sum' = [op |-> "add_many", c |-> homomorphic_add_many(pub, Ciphertexts)]
    /\ pc' = "added"
    /\ UNCHANGED <<electionVars, pub, priv, ct1, ct2, cts, call, ret>>

\* decrypted = paillier_decrypt(pub, priv, c) of the one ballot
DecryptBallot ==
    /\ pc = "enc1"
    /\ ret' = [of |-> "ct1", m |-> paillier_decrypt(pub, priv, ct1.c)]
    /\ pc' = "done"
    /\ UNCHANGED <<electionVars, pub, priv, ct1, ct2, sum, cts, call>>

\* tally = paillier_decrypt(pub, priv, aggregate)
DecryptSum ==
    /\ pc = "added"
    /\ ret' = [of |-> "sum", m |-> paillier_decrypt(pub, priv, sum.c)]
    /\ pc' = "done"
    /\ UNCHANGED <<electionVars, pub, priv, ct1, ct2, sum, cts, call>>

Next ==
    \/ KeyGen
    \/ EncryptWith
    \/ EncryptDraw
    \/ Add
    \/ AddMany
    \/ DecryptBallot
    \/ DecryptSum

Spec == Init /\ [][Next]_vars

(***************************************************************************)
(* The aggregator on its own: it is handed a list of integers of           *)
(* [0, n_sq), adds two or three of them or folds the list, and the         *)
(* aggregate is decrypted.                                                 *)
(***************************************************************************)
Supply ==
    /\ pc = "keyed"
    /\ Len(cts) < MaxLen
    /\ \E c \in Ciphers(pub) : cts' = Append(cts, c)
    /\ UNCHANGED <<electionVars, pc, pub, priv, ct1, ct2, sum, call, ret>>

\* homomorphic_add(pub, c1, c2)
AddPair ==
    /\ pc = "keyed"
    /\ Len(cts) = 2
    /\ sum' = [op |-> "add", c |-> homomorphic_add(pub, cts[1], cts[2])]
    /\ pc' = "added"
    /\ UNCHANGED <<electionVars, pub, priv, ct1, ct2, cts, call, ret>>

\* homomorphic_add(pub, homomorphic_add(pub, c1, c2), c3)
AddTriple ==
    /\ pc = "keyed"
    /\ Len(cts) = 3
    /\ sum' = [op |-> "add_add",
               c |-> homomorphic_add(pub,
                         homomorphic_add(pub, cts[1], cts[2]), cts[3])]
    /\ pc' = "added"
    /\ UNCHANGED <<electionVars, pub, priv, ct1, ct2, cts, call, ret>>

\* homomorphic_add_many(pub, ciphertexts)
AddManyList ==
    /\ pc = "keyed"
    /\ sum' = [op |-> "add_many", c |-> homomorphic_add_many(pub, cts)]
    /\ pc' = "added"
    /\ UNCHANGED <<electionVars, pub, priv, ct1, ct2, cts, call, ret>>

NextAggregate ==
    \/ KeyGen
    \/ Supply
    \/ AddPair
    \/ AddTriple
    \/ AddManyList
    \/ DecryptSum

SpecAggregate == Init /\ [][NextAggregate]_vars

(***************************************************************************)
(* The vote codec called on its own: encode_vote, add_vectors and the      *)
(* choice of the winner, on arguments of every shape.                      *)
(***************************************************************************)
CallEncodeVote ==
    /\ pc = "start"
    /\ \E num \in 0 .. MaxK : \E index \in (-MaxK - 1) .. (MaxK + 1) :
          /\ call' = [op |-> "encode_vote", index |-> index, num |-> num]
          /\ ret' = encode_vote(index, num)
    /\ pc' = "returned"
    /\ UNCHANGED <<electionVars, pub, priv, ct1, ct2, sum, cts>>

CallAddVectors ==
    /\ pc = "keyed"
    /\ \E a \in ListsUpTo(VecEntries(pub), MaxVec) :
          \E b \in ListsUpTo(VecEntries(pub), MaxVec) :
              /\ call' = [op |-> "add_vectors", a |-> a, b |-> b]
              /\ ret' = Return(add_vectors(a, b, pub))
    /\ pc' = "returned"
    /\ UNCHANGED <<electionVars, pub, priv, ct1, ct2, sum, cts>>

CallWinner ==
    /\ pc = "start"
    /\ \E t \in ListsUpTo(0 .. MaxCount, MaxK) :
          /\ call' = [op |-> "winner", tally |-> t]
          /\ ret' = winner(t)
    /\ pc' = "returned"
    /\ UNCHANGED <<electionVars, pub, priv, ct1, ct2, sum, cts>>

NextCodec ==
    \/ KeyGen
    \/ CallEncodeVote
    \/ CallAddVectors
    \/ CallWinner

SpecCodec == Init /\ [][NextCodec]_vars

(***************************************************************************)
(* An election, as run_realistic_election and multi_candidate_demo run     *)
(* it: generate the keys, fold the encrypted one-hot ballot of each voter  *)
(* into the running tally, and after the last voter decrypt the tally and  *)
(* name the winner.  The number of voters is 8 in the one and an input of  *)
(* 1..20 in the other; here the election ends after any 1..MaxVoters.      *)
(***************************************************************************)
ElectionKeyGen == KeyGenFrom(ElectionPool)

Total(c) == LET RECURSIVE Sum(_)
                Sum(i) == IF i = 0 THEN 0 ELSE c[i] + Sum(i - 1)
            IN  Sum(Len(c))

\* one pass of the loop over the votes
CastVote ==
    /\ pc = "keyed"
    /\ Total(cast) < MaxVoters
    /\ \E choice \in 0 .. (NumCandidates - 1) : \E draws \in BallotDraws(pub.n) :
          LET encoded == encode_vote(choice, NumCandidates).val
              encrypted == encrypt_vector(encoded, pub, draws)
          IN  /\ encrypted_tally' =
                    IF encrypted_tally = None THEN encrypted
                    ELSE add_vectors(encrypted_tally, encrypted, pub)
              /\ cast' = [cast EXCEPT ![choice + 1] = @ + 1]
    /\ UNCHANGED <<pc, pub, priv, ct1, ct2, sum, cts, call, ret, tally, winner_index>>

\* decrypt_vector indented into the loop over the votes: the tally is
\* decrypted after a vote and the loop goes on
DecryptTally_in_loop ==
    /\ pc = "keyed"
    /\ encrypted_tally # None
    /\ LET t == decrypt_vector(encrypted_tally, pub, priv)
       IN  /\ tally' = t
           /\ winner_index' = winner(t).val
    /\ UNCHANGED <<pc, pub, priv, ct1, ct2, sum, cts, call, ret, encrypted_tally, cast>>

\* tally = decrypt_vector(encrypted_tally, pub, priv) and the winner
DecryptTally ==
    /\ pc = "keyed"
    /\ encrypted_tally # None
    /\ LET t == decrypt_vector(encrypted_tally, pub, priv)
       IN  /\ tally' = t
           /\ winner_index' = winner(t).val
    /\ pc' = "done"
    /\ UNCHANGED <<pub, priv, ct1, ct2, sum, cts, call, ret, encrypted_tally, cast>>

NextElection ==
    \/ ElectionKeyGen
    \/ CastVote
    \/ DecryptTally

SpecElection == Init /\ [][NextElection]_vars

(***************************************************************************)
(* The election runs: run_simple_election and simple_election_demo         *)
(* encrypt each 0/1 vote, fold the list with homomorphic_add_many and      *)
(* decrypt the aggregate; run_realistic_election and multi_candidate_demo  *)
(* are the election above.  A run is of the first kind from its first      *)
(* scalar vote on, and of the second from its first ballot on.             *)
(***************************************************************************)
\* c = paillier_encrypt(pub, v) of the loop over the votes
SimpleVote ==
    /\ pc \in {"keyed", "enc1"}
    /\ encrypted_tally = None
    /\ \E v \in 0 .. MaxM : \E d \in Randomizers(pub.n) : Encrypt(v, NoR, d)

\* aggregate = homomorphic_add_many(pub, ciphertexts), after the loop
SimpleTally ==
    /\ encrypted_tally = None
    /\ AddMany

NextRuns ==
    \/ ElectionKeyGen
    \/ SimpleVote
    \/ SimpleTally
    \/ DecryptSum
    \/ CastVote
    \/ DecryptTally

SpecRuns == Init /\ [][NextRuns]_vars

(***************************************************************************)
(* Two voters with the same vote, as the loop of run_simple_election       *)
(* meets them: the plaintext of the first ballot is encrypted a second     *)
(* time, under the randomizer the caller gives or getRandom draws.         *)
(***************************************************************************)
EncryptFirst ==
    /\ pc = "keyed"
    /\ \E m \in Plaintexts(pub.n) : \E r \in WideUnits(pub.n) :
          Encrypt(m, SomeR(r), r)

\* the same m, r given
ReencryptWith ==
    /\ pc = "enc1"
    /\ \E r \in WideUnits(pub.n) : Encrypt(ct1.m, SomeR(r), r)

\* the same m, r drawn by getRandom
ReencryptDraw ==
    /\ pc = "enc1"
    /\ \E d \in WideUnits(pub.n) : Encrypt(ct1.m, NoR, d)

NextReencrypt ==
    \/ KeyGen
    \/ EncryptFirst
    \/ ReencryptWith
    \/ ReencryptDraw

SpecReencrypt == Init /\ [][NextReencrypt]_vars

(***************************************************************************)
(* paillier_decrypt called on its own, on an integer of [0, n_sq) that     *)
(* came from no encryption or from one.                                    *)
(***************************************************************************)
CallDecrypt ==
    /\ pc = "keyed"
    /\ \E c \in Malformed(pub) \cup Ciphers(pub) :
          /\ call' = [op |-> "paillier_decrypt", c |-> c]
          /\ ret' = [of |-> "c", m |-> paillier_decrypt(pub, priv, c)]
    /\ pc' = "done"
    /\ UNCHANGED <<electionVars, pub, priv, ct1, ct2, sum, cts>>

NextDecrypt ==
    \/ KeyGen
    \/ CallDecrypt

SpecDecrypt == Init /\ [][NextDecrypt]_vars

(***************************************************************************)
(* The cipher.                                                             *)
(***************************************************************************)

\* C1: decrypting the encryption of m under the matching private key
\* returns exactly m, for every key of the pool, the plaintexts at both
\* ends of [0, n) and every randomizer drawn.
C1_DecryptEncrypt ==
    (pc = "done" /\ ret.of = "ct1") => ret.m = ct1.m

\* the largest plaintext under the largest randomizer came back
C1_Witness ==
    /\ pc = "done"
    /\ ret.of = "ct1"
    /\ ct1.m = pub.n - 1
    /\ ct1.r = pub.n - 1
    /\ ret.m = pub.n - 1

\* C2: decrypting homomorphic_add of the encryptions of a and b returns
\* (a + b) mod n.
C2_Homomorphism ==
    (pc = "done" /\ ret.of = "sum" /\ sum.op = "add")
        => ret.m = (ct1.m + ct2.m) % pub.n

\* a sum that wraps around n, under two different randomizers
C2_Witness ==
    /\ pc = "done"
    /\ ret.of = "sum"
    /\ sum.op = "add"
    /\ ct1.m = pub.n - 1
    /\ ct2.m = pub.n - 1
    /\ ct1.r # ct2.r
    /\ ret.m = pub.n - 2

\* C4: paillier_encrypt raises ValueError, before any draw of getRandom
\* and without a ciphertext, exactly when m is outside 0 <= m < n; every
\* ballot that was encrypted has its plaintext in range.
C4_EncryptRange ==
    /\ pc = "error" =>
          /\ ~InRange(call.m, pub.n)
          /\ ret = [err |-> "ValueError", draws |-> 0]
          /\ ct2 = None
    /\ ct1 # None => InRange(ct1.m, pub.n)
    /\ ct2 # None => InRange(ct2.m, pub.n)

\* m = n - 1 was encrypted, and then m = n was refused with r left out
C4_Witness ==
    /\ pc = "error"
    /\ call = [m |-> pub.n, r |-> NoR]
    /\ Raised(ret)
    /\ ct1 # None
    /\ ct1.m = pub.n - 1


\* C13: two encryptions of the same m under the same key are different
\* ciphertexts when their randomizers differ and the same ciphertext when
\* their randomizers are the same, given or drawn; both decrypt to m.
C13_Rerandomize ==
    pc = "enc2" /\ ct1.m = ct2.m =>
        /\ ct1.r # ct2.r => ct1.c # ct2.c
        /\ ct1.r = ct2.r => ct1.c = ct2.c
        /\ paillier_decrypt(pub, priv, ct1.c) = ct1.m
        /\ paillier_decrypt(pub, priv, ct2.c) = ct1.m

\* the largest plaintext under the smallest and the largest randomizer
C13_Witness ==
    /\ pc = "enc2"
    /\ ct1.m = pub.n - 1
    /\ ct2.m = pub.n - 1
    /\ ct1.r = 1
    /\ ct2.r = pub.n - 1
    /\ ct1.c # ct2.c
    /\ paillier_decrypt(pub, priv, ct2.c) = pub.n - 1

\* C14: paillier_decrypt of any integer c of [0, n_sq), a ciphertext or
\* not, returns an integer m with 0 <= m < n.
C14_DecryptInRange ==
    (pc = "done" /\ ret.of = "c") =>
        /\ InRange(call.c, pub.n_sq)
        /\ ret.m \in Int
        /\ InRange(ret.m, pub.n)

\* c = 0, which is no ciphertext and for which L(0) = -1, was decrypted
C14_Witness ==
    /\ pc = "done"
    /\ ret.of = "c"
    /\ call.c = 0
    /\ L(pow(call.c, priv.lambda_, pub.n_sq), pub.n) = -1
    /\ ret.m = pub.n - priv.mu

(***************************************************************************)
(* The order of an election run.                                           *)
(***************************************************************************)
\* a decrypt call has returned
Decrypted == tally # None \/ ret # None

\* the step is the key generation when it starts without keys, and leaves
\* the keys alone otherwise; the step starts before any decryption
OrderedStep ==
    /\ pub = None =>
          /\ ct1' = None
          /\ ct2' = None
          /\ sum' = None
          /\ encrypted_tally' = None
          /\ ~Decrypted'
    /\ pub # None => pub' = pub /\ priv' = priv
    /\ ~Decrypted

\* the step that decrypts leaves ballots and aggregate as they are, and
\* decrypts the result of homomorphic_add_many or the encrypted tally of
\* at least minVoters ballots
DecryptsAggregate(minVoters) ==
    Decrypted' =>
        /\ ct1' = ct1
        /\ ct2' = ct2
        /\ sum' = sum
        /\ encrypted_tally' = encrypted_tally
        /\ IF tally' # None
           THEN /\ encrypted_tally # None
                /\ Len(tally') = Len(encrypted_tally)
                /\ Total(cast) >= minVoters
           ELSE /\ sum # None
                /\ sum.op = "add_many"
                /\ ret'.of = "sum"

\* C15 as stated: key generation is over before the first encryption,
\* every encryption and aggregation is over before the decryption, and
\* decrypt is applied only to the final aggregate, which add_vectors or
\* homomorphic_add_many produced, never to the ciphertext of one ballot.
C15_NeverBallot ==
    [][OrderedStep /\ DecryptsAggregate(2)]_vars

\* C15, amended: key generation is over before the first encryption, every
\* encryption and aggregation is over before the one decryption, and
\* decrypt is applied to the result of homomorphic_add_many or to the
\* encrypted tally after the loop; with two voters or more the tally it
\* returns is that of no single ballot, and with one voter the encrypted
\* tally is that voter's ballot.
C15_RunOrder ==
    [][/\ OrderedStep
       /\ DecryptsAggregate(1)
       /\ tally' # None =>
             /\ Total(cast) >= 2 => Total(tally') >= 2
             /\ Total(cast) = 1 => Total(tally') = 1]_vars

\* a run of four voters was decrypted after the last vote
C15_Witness ==
    /\ pc = "done"
    /\ Total(cast) = MaxVoters
    /\ tally # None
    /\ Total(tally) = MaxVoters
    /\ sum = None
    /\ ct1 = None

(***************************************************************************)
(* The key generator.                                                      *)
(***************************************************************************)
IsPrime(p) == p > 1 /\ \A d \in 2 .. (p - 1) : p % d # 0

\* C11: the keypair generatePaillierKey returned has n = p * q for two
\* distinct primes p, q of the pool, g = n + 1, n_sq = n * n,
\* lambda = lcm(p - 1, q - 1), g^lambda mod n_sq congruent to 1 mod n, and
\* mu * L(g^lambda mod n_sq) congruent to 1 mod n.
C11_KeyInvariant ==
    pc = "keyed" =>
        LET x == pow(pub.g, priv.lambda_, pub.n_sq)
        IN  /\ \E p \in Pool : \E q \in Pool :
                  /\ p # q
                  /\ IsPrime(p)
                  /\ IsPrime(q)
                  /\ pub.n = p * q
                  /\ priv.lambda_ = lcm(p - 1, q - 1)
            /\ pub.g = pub.n + 1
            /\ pub.n_sq = pub.n * pub.n
            /\ x % pub.n = 1
            /\ L(x, pub.n) * pub.n = x - 1
            /\ InRange(priv.mu, pub.n)
            /\ (priv.mu * L(x, pub.n)) % pub.n = 1

\* the key of the two largest primes of the pool was returned
C11_Witness ==
    /\ pc = "keyed"
    /\ pub.n = small_primes[Len(small_primes) - 1] * small_primes[Len(small_primes)]
    /\ priv.lambda_ = lcm(small_primes[Len(small_primes) - 1] - 1,
                          small_primes[Len(small_primes)] - 1)

RECURSIVE FoldAdd(_, _, _)
FoldAdd(pk, s, acc) ==
    IF s = <<>> THEN acc
    ELSE FoldAdd(pk, Tail(s), homomorphic_add(pk, acc, Head(s)))

\* the permutations of 1..n (orderings of n positions)
Orderings(n) ==
    {f \in [1 .. n -> 1 .. n] : \A i, j \in 1 .. n : f[i] = f[j] => i = j}

Permuted(s, f) == [i \in 1 .. Len(s) |-> s[f[i]]]

\* C8: homomorphic_add_many of the empty list is 1, the encryption of 0
\* under r = 1, which decrypts to 0 under every key; of any other list it
\* is the left fold of homomorphic_add from 1.
C8_AddManyIdentity ==
    (pc \in {"added", "done"} /\ sum.op = "add_many") =>
        /\ sum.c = FoldAdd(pub, cts, 1)
        /\ cts = <<>> => sum.c = 1
        /\ (cts = <<>> /\ pc = "done") => ret.m = 0

\* the empty aggregate was decrypted
C8_Witness ==
    /\ pc = "done"
    /\ sum.op = "add_many"
    /\ cts = <<>>
    /\ sum.c = 1
    /\ ret.m = 0

\* C9: homomorphic_add_many returns the same ciphertext for every
\* permutation of its list, and for every split of the list into two
\* folds that are then added.
C9_FoldConsistency ==
    (pc = "added" /\ sum.op = "add_many") =>
        /\ \A f \in Orderings(Len(cts)) :
              homomorphic_add_many(pub, Permuted(cts, f)) = sum.c
        /\ \A k \in 0 .. Len(cts) :
              homomorphic_add(pub,
                  homomorphic_add_many(pub, SubSeq(cts, 1, k)),
                  homomorphic_add_many(pub, SubSeq(cts, k + 1, Len(cts))))
              = sum.c % pub.n_sq

\* a list of MaxLen different ciphertexts was folded
C9_Witness ==
    /\ pc = "added"
    /\ sum.op = "add_many"
    /\ Len(cts) = MaxLen
    /\ \A i, j \in 1 .. Len(cts) : cts[i] = cts[j] => i = j
    /\ sum.c \notin {0, 1}

\* C10: homomorphic_add is commutative and associative on [0, n_sq), and
\* its result lies in [0, n_sq).
C10_AddLaws ==
    /\ (pc = "added" /\ sum.op = "add") =>
          /\ sum.c = homomorphic_add(pub, cts[2], cts[1])
          /\ InRange(sum.c, pub.n_sq)
    /\ (pc = "added" /\ sum.op = "add_add") =>
          /\ sum.c = homomorphic_add(pub, cts[1],
                          homomorphic_add(pub, cts[2], cts[3]))
          /\ InRange(sum.c, pub.n_sq)

\* three different integers, the largest of the range among them, were added
C10_Witness ==
    /\ pc = "added"
    /\ sum.op = "add_add"
    /\ cts[1] = pub.n_sq - 1
    /\ cts[2] = pub.g
    /\ cts[3] # cts[1]
    /\ cts[3] # cts[2]

(***************************************************************************)
(* The vote codec and the election.                                        *)
(***************************************************************************)
\* the length-k vector that is 1 at position index and 0 elsewhere
OneHot(index, k) == [i \in 1 .. k |-> IF i = index + 1 THEN 1 ELSE 0]

\* C3: whatever the votes and however many the voters, the decrypted
\* running tally has, for each candidate, the number of votes cast for it.
C3_TallyCounts ==
    pc = "done" /\ tally # None => tally = cast

\* four voters, two of them for the same candidate
C3_Witness ==
    /\ pc = "done"
    /\ cast = <<1, 0, 2, 1>>
    /\ tally = <<1, 0, 2, 1>>

\* C5: encode_vote(index, k) raises for every index outside 0 <= index < k
\* and returns no vector then; for 0 <= index < k it returns the one-hot
\* vector of length k.
C5_EncodeVoteRange ==
    (pc = "returned" /\ call.op = "encode_vote") =>
        IF InRange(call.index, call.num)
        THEN ret = Return(OneHot(call.index, call.num))
        ELSE Raised(ret)

\* C6: add_vectors(a, b, pub) raises when len(a) # len(b), and otherwise
\* returns the vector of that length whose i-th entry is
\* homomorphic_add(pub, a[i], b[i]).
C6_AddVectorsLength ==
    (pc = "returned" /\ call.op = "add_vectors") =>
        IF Len(call.a) # Len(call.b)
        THEN Raised(ret)
        ELSE ret = Return([i \in 1 .. Len(call.a) |->
                             homomorphic_add(pub, call.a[i], call.b[i])])

\* C7: the winner of a non-empty tally is the lowest index among those
\* with the most votes.
C7_WinnerLowestMax ==
    (pc = "returned" /\ call.op = "winner" /\ call.tally # <<>>) =>
        /\ ~Raised(ret)
        /\ ret.val \in 0 .. (Len(call.tally) - 1)
        /\ \A j \in 1 .. Len(call.tally) :
              /\ call.tally[j] <= call.tally[ret.val + 1]
              /\ j < ret.val + 1 => call.tally[j] < call.tally[ret.val + 1]

\* the tally of four candidates in which the first and the third tie
C7_Witness ==
    /\ pc = "returned"
    /\ call.op = "winner"
    /\ call.tally = <<2, 1, 2, 1>>
    /\ ret = Return(0)

====
